---- MODULE Spec2Model ----
(***************************************************************************)
(* Model of the icloud_reingest classifiers.                               *)
(*                                                                         *)
(*   src/src/utils.py                 should_skip_by_partial_match,        *)
(*                                    extract_year_from_path               *)
(*   src/src/evaluate_video_files.py  is_hdr_stream, crawl_and_evaluate    *)
(*   src/src/evaluate_image_files.py  crawl_and_evaluate                   *)
(*                                                                         *)
(* Python str values are TLA+ strings; they are taken apart with SubSeq,   *)
(* so lower(), the substring test, the path split and the regular          *)
(* expression are computed character by character.                         *)
(***************************************************************************)
EXTENDS Integers, Sequences, FiniteSets, TLC

VARIABLES
    program,   \* which entry point runs: "hdr", "video", "image"
    args,      \* what the entry point is given: a stream, or a walked file
    results,   \* the list crawl_and_evaluate appends its entries to
    locals,    \* the local variables the last loop iteration assigned
    ret        \* <<v>> once a direct call of is_hdr_stream has returned v

vars == <<program, args, results, locals, ret>>

(***************************************************************************)
(* Python values                                                           *)
(***************************************************************************)

\* Python's None, as a value no probed string is equal to.
None == "<None>"

\* dict.get(key): None when the key is absent.
Get(d, k) == IF k \in DOMAIN d THEN d[k] ELSE None

\* dict.get(key, default)
GetDefault(d, k, default) == IF k \in DOMAIN d THEN d[k] ELSE default

\* Truth value of an optional string: None and '' are false.
Truthy(v) == v # None /\ v # ""

\* `a or b` on optional strings.
Or(a, b) == IF Truthy(a) THEN a ELSE b

CharAt(s, i) == SubSeq(s, i, i)

UpperAlpha == "ABCDEFGHIJKLMNOPQRSTUVWXYZ"
LowerAlpha == "abcdefghijklmnopqrstuvwxyz"

\* The lower-case letter of each upper-case letter.
LowerMap ==
    [c \in {CharAt(UpperAlpha, i) : i \in 1..Len(UpperAlpha)} |->
        CharAt(LowerAlpha, CHOOSE i \in 1..Len(UpperAlpha) : CharAt(UpperAlpha, i) = c)]

LowerChar(c) == IF c \in DOMAIN LowerMap THEN LowerMap[c] ELSE c

RECURSIVE lower(_)
\* str.lower()
lower(s) == IF s = "" THEN "" ELSE LowerChar(CharAt(s, 1)) \o lower(SubSeq(s, 2, Len(s)))

\* `sub in s` on strings
In(sub, s) == \E i \in 0..(Len(s) - Len(sub)) : SubSeq(s, i + 1, i + Len(sub)) = sub

IsDigit(c) == c \in {"0", "1", "2", "3", "4", "5", "6", "7", "8", "9"}

(***************************************************************************)
(* evaluate_video_files.is_hdr_stream                                      *)
(***************************************************************************)

\* is_hdr_stream with the wide-gamut test of the 10-bit rule left out.
is_hdr_stream_any10bit(stream) ==
    LET trc == lower(Or(Or(Get(stream, "color_transfer"), Get(stream, "color_trc")), ""))
        pix_fmt == lower(Or(Get(stream, "pix_fmt"), ""))
    IN  IF trc \in {"smpte2084", "arib-std-b67"} THEN TRUE
        ELSE IF In("dovi", pix_fmt) THEN TRUE
        ELSE IF \E x \in {"10", "12", "16"} : In(x, pix_fmt) THEN TRUE
        ELSE FALSE

\* is_hdr_stream reading color_transfer only, without the color_trc fallback.
is_hdr_stream_no_fallback(stream) ==
    LET trc == lower(Or(Get(stream, "color_transfer"), ""))
        primaries == lower(Or(Get(stream, "color_primaries"), ""))
        pix_fmt == lower(Or(Get(stream, "pix_fmt"), ""))
    IN  IF trc \in {"smpte2084", "arib-std-b67"} THEN TRUE
        ELSE IF In("dovi", pix_fmt) THEN TRUE
        ELSE IF (\E x \in {"10", "12", "16"} : In(x, pix_fmt))
                /\ primaries \in {"bt2020", "bt2020nc"} THEN TRUE
        ELSE FALSE

is_hdr_stream(stream) ==
    LET trc == lower(Or(Or(Get(stream, "color_transfer"), Get(stream, "color_trc")), ""))
        primaries == lower(Or(Get(stream, "color_primaries"), ""))
        pix_fmt == lower(Or(Get(stream, "pix_fmt"), ""))
    IN  IF trc \in {"smpte2084", "arib-std-b67"} THEN TRUE
        ELSE IF In("dovi", pix_fmt) THEN TRUE
        ELSE IF (\E x \in {"10", "12", "16"} : In(x, pix_fmt))
                /\ primaries \in {"bt2020", "bt2020nc"} THEN TRUE
        ELSE FALSE

(***************************************************************************)
(* Streams handed to a direct call of is_hdr_stream: every combination of  *)
(* the four colour fields, each absent, None, empty or set.                *)
(***************************************************************************)

TransferValues == {"smpte2084", "SMPTE2084", "arib-std-b67", "bt709", "", None}
PrimariesValues == {"bt2020", "BT2020NC", "bt2020nc", "bt709", None}
PixFmtValues == {"yuv420p", "yuv420p10le", "yuv422p12le", "gray16le", "DOVI_p8", "yuv444p", None}

\* The dict with the given fields, a field being left out where absent is TRUE.
ColourStream(ct, ctAbsent, trc, trcAbsent, prim, pix) ==
    LET keys == (IF ctAbsent THEN {} ELSE {"color_transfer"})
                \cup (IF trcAbsent THEN {} ELSE {"color_trc"})
                \cup {"color_primaries", "pix_fmt", "codec_type"}
    IN  [k \in keys |->
            CASE k = "color_transfer" -> ct
              [] k = "color_trc" -> trc
              [] k = "color_primaries" -> prim
              [] k = "pix_fmt" -> pix
              [] k = "codec_type" -> "video"]

HdrStreams ==
    { ColourStream(ct, FALSE, trc, FALSE, prim, pix) :
        ct \in TransferValues, trc \in TransferValues,
        prim \in PrimariesValues, pix \in PixFmtValues }
    \cup { ColourStream(None, TRUE, trc, FALSE, prim, pix) :
        trc \in TransferValues, prim \in PrimariesValues, pix \in PixFmtValues }
    \cup { ColourStream(ct, FALSE, None, TRUE, prim, pix) :
        ct \in TransferValues, prim \in PrimariesValues, pix \in PixFmtValues }

InitHdr ==
    /\ program = "hdr"
    /\ args \in HdrStreams
    /\ results = <<>>
    /\ locals = <<>>
    /\ ret = <<>>

\* One call of is_hdr_stream(args).
CallIsHdrStream ==
    /\ program = "hdr"
    /\ ret = <<>>
    /\ ret' = <<is_hdr_stream(args)>>
    /\ UNCHANGED <<program, args, results, locals>>

(***************************************************************************)
(* Claims about is_hdr_stream                                              *)
(***************************************************************************)

HdrReturned == program = "hdr" /\ ret # <<>>

\* The three conditions of the claim, each field compared lower-cased as
\* the function normalises it.
HdrTransferOf(s) ==
    IF Truthy(Get(s, "color_transfer")) THEN lower(Get(s, "color_transfer"))
    ELSE IF Truthy(Get(s, "color_trc")) THEN lower(Get(s, "color_trc"))
    ELSE ""
HdrPixFmtOf(s) == IF Truthy(Get(s, "pix_fmt")) THEN lower(Get(s, "pix_fmt")) ELSE ""
HdrPrimariesOf(s) ==
    IF Truthy(Get(s, "color_primaries")) THEN lower(Get(s, "color_primaries")) ELSE ""
HdrCondA(s) == HdrTransferOf(s) = "smpte2084" \/ HdrTransferOf(s) = "arib-std-b67"
HdrCondB(s) == In("dovi", HdrPixFmtOf(s))
HdrCondC(s) ==
    /\ In("10", HdrPixFmtOf(s)) \/ In("12", HdrPixFmtOf(s)) \/ In("16", HdrPixFmtOf(s))
    /\ HdrPrimariesOf(s) = "bt2020" \/ HdrPrimariesOf(s) = "bt2020nc"

\* C6: is_hdr_stream returns true iff (a) the transfer characteristic
\* (color_transfer, else color_trc) is smpte2084 or arib-std-b67, or (b) the
\* pixel format contains "dovi", or (c) the pixel format contains 10, 12 or
\* 16 and the primaries are bt2020 or bt2020nc; so a "10" pixel format is HDR
\* with primaries bt2020 and, with no HDR transfer and no dovi, not HDR with
\* primaries bt709.
C6_IsHdrIffAnyCondition ==
    HdrReturned =>
        /\ ret[1] = (HdrCondA(args) \/ HdrCondB(args) \/ HdrCondC(args))
        /\ (In("10", HdrPixFmtOf(args)) /\ Get(args, "color_primaries") = "bt2020")
              => ret[1] = TRUE
        /\ (/\ In("10", HdrPixFmtOf(args))
            /\ Get(args, "color_primaries") = "bt709"
            /\ ~HdrCondA(args)
            /\ ~HdrCondB(args))
              => ret[1] = FALSE

\* C6 witness: a 10-bit stream with an SDR transfer returned HDR because of
\* its bt2020 primaries alone.
C6_Witness ==
    /\ HdrReturned
    /\ ret[1] = TRUE
    /\ Get(args, "pix_fmt") = "yuv420p10le"
    /\ Get(args, "color_primaries") = "bt2020"
    /\ ~HdrCondA(args)
    /\ ~HdrCondB(args)

\* C7 as stated: a stream whose color_trc is "smpte2084" is HDR whatever
\* its other fields, a color_transfer field included.
C7_Original_TrcAlwaysHdr ==
    (HdrReturned /\ Get(args, "color_trc") = "smpte2084") => ret[1] = TRUE

\* C7 amended: a stream whose color_trc is "smpte2084" and whose
\* color_transfer is absent, None or empty is HDR whatever its pixel format
\* and primaries.
C7_TrcHdrWithoutTransfer ==
    (/\ HdrReturned
     /\ Get(args, "color_trc") = "smpte2084"
     /\ ~Truthy(Get(args, "color_transfer")))
        => ret[1] = TRUE

\* C7 witness: color_trc alone made an 8-bit bt709 stream HDR.
C7_Witness ==
    /\ HdrReturned
    /\ ret[1] = TRUE
    /\ Get(args, "color_trc") = "smpte2084"
    /\ ~Truthy(Get(args, "color_transfer"))
    /\ Get(args, "pix_fmt") = "yuv420p"
    /\ Get(args, "color_primaries") = "bt709"

(***************************************************************************)
(* utils.py                                                                *)
(***************************************************************************)

RECURSIVE AnyKeyword(_, _, _)
\* The loop of should_skip_by_partial_match from keyword i on.
AnyKeyword(path, skiplist, i) ==
    IF i > Len(skiplist) THEN FALSE
    ELSE IF In(lower(skiplist[i]), lower(path)) THEN TRUE
    ELSE AnyKeyword(path, skiplist, i + 1)

should_skip_by_partial_match(path, skiplist) == AnyKeyword(path, skiplist, 1)

IsSeparator(c) == c = "/" \/ c = "\\"

RECURSIVE re_split(_)
\* re.split(r'[\\/]', path)
re_split(path) ==
    LET seps == {i \in 1..Len(path) : IsSeparator(CharAt(path, i))}
    IN  IF seps = {} THEN <<path>>
        ELSE LET i == CHOOSE j \in seps : \A k \in seps : j <= k
             IN  <<SubSeq(path, 1, i - 1)>> \o re_split(SubSeq(path, i + 1, Len(path)))

\* re.match(r'(20\d{2})', part): group 1, or None when the part does not
\* start with 20 and two digits.
re_match_year(part) ==
    IF /\ Len(part) >= 4
       /\ SubSeq(part, 1, 2) = "20"
       /\ IsDigit(CharAt(part, 3))
       /\ IsDigit(CharAt(part, 4))
    THEN SubSeq(part, 1, 4)
    ELSE None

extract_year_from_path(path) ==
    LET parts == re_split(path)
        hits == {i \in 1..Len(parts) : re_match_year(parts[i]) # None}
    IN  IF hits = {} THEN None
        ELSE re_match_year(parts[CHOOSE i \in hits : \A k \in hits : i <= k])

(***************************************************************************)
(* Library functions the classifiers call                                  *)
(***************************************************************************)

\* os.path.splitext(file_name)[1]: from the last dot on, unless only dots
\* come before it.
splitext_ext(name) ==
    LET dots == {i \in 1..Len(name) : CharAt(name, i) = "."}
    IN  IF dots = {} THEN ""
        ELSE LET d == CHOOSE i \in dots : \A k \in dots : k <= i
             IN  IF \E i \in 1..(d - 1) : CharAt(name, i) # "."
                 THEN SubSeq(name, d, Len(name))
                 ELSE ""

\* os.path.splitext(file_name)[1][1:].lower()
ExtOf(file_name) ==
    LET e == splitext_ext(file_name) IN lower(SubSeq(e, 2, Len(e)))

\* os.path.abspath(os.path.join(folder_path, file_name)) for a walk rooted at
\* an absolute, normalised folder.
JoinPath(folder_path, file_name) == folder_path \o "/" \o file_name

Digits == "0123456789"

RECURSIVE str(_)
\* str(n) for n >= 0
str(n) == IF n < 10 THEN CharAt(Digits, n + 1)
          ELSE str(n \div 10) \o CharAt(Digits, (n % 10) + 1)

Pad2(n) == IF n < 10 THEN "0" \o str(n) ELSE str(n)

Pad4(n) == IF n < 10 THEN "000" \o str(n)
           ELSE IF n < 100 THEN "00" \o str(n)
           ELSE IF n < 1000 THEN "0" \o str(n)
           ELSE str(n)

\* The proleptic Gregorian date of day number z (days since 1970-01-01).
CivilFromDays(z) ==
    LET zz == z + 719468
        era == zz \div 146097
        doe == zz - era * 146097
        yoe == (doe - (doe \div 1460) + (doe \div 36524) - (doe \div 146096)) \div 365
        doy == doe - (365 * yoe + (yoe \div 4) - (yoe \div 100))
        mp == (5 * doy + 2) \div 153
        d == doy - ((153 * mp + 2) \div 5) + 1
        m == IF mp < 10 THEN mp + 3 ELSE mp - 9
        y == yoe + era * 400 + (IF m <= 2 THEN 1 ELSE 0)
    IN  [year |-> y, month |-> m, day |-> d]

\* datetime.utcfromtimestamp(t) for a whole number of seconds t >= 0.
utcfromtimestamp(t) ==
    LET date == CivilFromDays(t \div 86400)
        secs == t % 86400
    IN  [year |-> date.year, month |-> date.month, day |-> date.day,
         hour |-> secs \div 3600, minute |-> (secs % 3600) \div 60, second |-> secs % 60]

\* datetime.fromtimestamp(t): the local wall clock, utc_offset seconds
\* ahead of UTC at t.
fromtimestamp(t, utc_offset) == utcfromtimestamp(t + utc_offset)

\* datetime.isoformat() of a datetime without microseconds.
isoformat(dt) ==
    Pad4(dt.year) \o "-" \o Pad2(dt.month) \o "-" \o Pad2(dt.day) \o "T"
    \o Pad2(dt.hour) \o ":" \o Pad2(dt.minute) \o ":" \o Pad2(dt.second)

RECURSIVE JoinPairs(_, _)
JoinPairs(pairs, i) ==
    IF i > Len(pairs) THEN ""
    ELSE (IF i > 1 THEN ", " ELSE "")
         \o "\"" \o pairs[i][1] \o "\": \"" \o pairs[i][2] \o "\""
         \o JoinPairs(pairs, i + 1)

\* json.dumps of a dict of strings, given as its items in insertion order.
json_dumps(pairs) == "{" \o JoinPairs(pairs, 1) \o "}"

(***************************************************************************)
(* evaluate_video_files.py: configuration and metadata helpers             *)
(***************************************************************************)

\* [e.lower() for e in ONLY_HANDLE_THESE_VIDEO_EXTENSIONS]
ONLY_HANDLE_THESE_VIDEO_EXTENSIONS == <<"mkv", "mp4", "mov">>

SKIPLIST_PARTIAL_MATCH == <<"GOEF", "Elia", "BBM", "Trash", "small">>

\* `x in list`
InList(x, list) == \E i \in 1..Len(list) : list[i] = x

RECURSIVE Flatten(_)
Flatten(seqs) == IF seqs = <<>> THEN <<>> ELSE Head(seqs) \o Flatten(Tail(seqs))

\* The (key, value) tag pairs in the order the two metadata scans visit them:
\* the format section, then each stream, each item's tags in dict order.
TagsInScanOrder(metadata) ==
    LET items == (IF "format" \in DOMAIN metadata THEN <<metadata.format>> ELSE <<>>)
                 \o (IF "streams" \in DOMAIN metadata THEN metadata.streams ELSE <<>>)
    IN  Flatten([i \in 1..Len(items) |-> GetDefault(items[i], "tags", <<>>)])

get_creation_time_from_metadata(metadata) ==
    LET tags == TagsInScanOrder(metadata)
        hits == {i \in 1..Len(tags) :
                    \/ lower(tags[i][1]) = "creation_time"
                    \/ lower(tags[i][1]) = "com.apple.quicktime.creationdate"}
    IN  IF hits = {} THEN None
        ELSE tags[CHOOSE i \in hits : \A k \in hits : i <= k][2]

APPLE_KEYS ==
    {"com.apple.quicktime.make", "com.apple.quicktime.model", "com.apple.quicktime.software"}

\* found[k] = v on a dict kept as its items in insertion order.
DictSet(found, k, v) ==
    IF \E i \in 1..Len(found) : found[i][1] = k
    THEN [i \in 1..Len(found) |-> IF found[i][1] = k THEN <<k, v>> ELSE found[i]]
    ELSE Append(found, <<k, v>>)

RECURSIVE CollectApple(_, _, _)
CollectApple(tags, i, found) ==
    IF i > Len(tags) THEN found
    ELSE CollectApple(tags, i + 1,
            IF lower(tags[i][1]) \in APPLE_KEYS
            THEN DictSet(found, tags[i][1], tags[i][2])
            ELSE found)

\* The dict found, as its items; the empty list stands for the None the
\* function returns for an empty dict.
extract_apple_metadata(metadata) == CollectApple(TagsInScanOrder(metadata), 1, <<>>)

\* get_file_mtime_as_iso of a file that exists.
get_file_mtime_as_iso(mtime) == isoformat(utcfromtimestamp(mtime)) \o "Z"

(***************************************************************************)
(* evaluate_video_files.crawl_and_evaluate: one iteration of the file loop *)
(***************************************************************************)

\* Lines 246-254: the locals before the stream loop.
ProfileDefaults(ext) ==
    [video_codec_needed |-> TRUE,
     audio_codec_needed |-> TRUE,
     container_needed |-> ext # "mov",
     audio_channels |-> 2,
     hdr_to_sdr_needed |-> FALSE,
     video_reason |-> None,
     audio_reason |-> None,
     container_reason |-> None,
     hdr_reason |-> None]

\* Lines 256-269: the video branch of the loop body.
VideoBranch(p, stream) ==
    LET is_hvc1 == /\ Get(stream, "codec_name") = "hevc"
                   /\ lower(GetDefault(stream, "codec_tag_string", "")) = "hvc1"
        is_hdr == is_hdr_stream(stream)
    IN  IF is_hvc1 /\ ~is_hdr
        THEN [p EXCEPT !.video_codec_needed = FALSE]
        ELSE [p EXCEPT !.video_codec_needed = TRUE,
                       !.video_reason = IF ~is_hvc1 THEN "video codec" ELSE @,
                       !.hdr_to_sdr_needed = IF is_hdr THEN TRUE ELSE @,
                       !.hdr_reason = IF is_hdr THEN "HDR to SDR" ELSE @]

\* Lines 270-275: the audio branch of the loop body.
AudioBranch(p, stream) ==
    [p EXCEPT !.audio_codec_needed = IF Get(stream, "codec_name") = "aac" THEN FALSE ELSE @,
              !.audio_reason = IF Get(stream, "codec_name") = "aac" THEN @ ELSE "audio codec",
              !.audio_channels = GetDefault(stream, "channels", 2)]

\* Lines 255-275: the loop body for one stream.
StreamStep(p, stream) ==
    LET p1 == IF Get(stream, "codec_type") = "video" THEN VideoBranch(p, stream) ELSE p
    IN  IF Get(stream, "codec_type") = "audio" THEN AudioBranch(p1, stream) ELSE p1

RECURSIVE StreamLoop(_, _, _)
StreamLoop(p, streams, i) ==
    IF i > Len(streams) THEN p ELSE StreamLoop(StreamStep(p, streams[i]), streams, i + 1)

\* Lines 245-279: the profile the stream loop leaves in the locals.
StreamProfile(info, ext) ==
    LET p == StreamLoop(ProfileDefaults(ext), GetDefault(info, "streams", <<>>), 1)
    IN  [p EXCEPT !.container_reason = IF ~p.container_needed THEN None ELSE "container"]

\* Lines 281-302: the creation time, or the reason the file is skipped for.
ResolveDate(info, file_path, mtime, utc_offset) ==
    LET creation_time == get_creation_time_from_metadata(info)
    IN  IF Truthy(creation_time)
        THEN [creation_time |-> creation_time, skip |-> None]
        ELSE LET path_year == extract_year_from_path(file_path)
             IN  IF Truthy(path_year)
                 THEN LET mod_year == fromtimestamp(mtime, utc_offset).year
                      IN  IF str(mod_year) = path_year
                          THEN [creation_time |-> get_file_mtime_as_iso(mtime), skip |-> None]
                          ELSE [creation_time |-> creation_time,
                                skip |-> "file modified time mismatch"]
                 ELSE [creation_time |-> creation_time, skip |-> "no year in path"]

\* Line 305 testing the reasons as well as the flags: an audio reason left by
\* an earlier stream keeps the file from being moved.
IsFullyCompatible_and_no_audio_reason(p) ==
    /\ ~p.video_codec_needed
    /\ ~p.audio_codec_needed
    /\ ~p.container_needed
    /\ ~p.hdr_to_sdr_needed
    /\ ~Truthy(p.audio_reason)

\* Line 305.
IsFullyCompatible(p) ==
    /\ ~p.video_codec_needed
    /\ ~p.audio_codec_needed
    /\ ~p.container_needed
    /\ ~p.hdr_to_sdr_needed

RECURSIVE JoinPlus(_, _)
\* '+'.join(reasons)
JoinPlus(reasons, i) ==
    IF i > Len(reasons) THEN ""
    ELSE (IF i > 1 THEN "+" ELSE "") \o reasons[i] \o JoinPlus(reasons, i + 1)

\* Lines 316-327: the list reasons.
BuildReasons(p) ==
    (IF p.video_codec_needed /\ Truthy(p.video_reason) THEN <<p.video_reason>> ELSE <<>>)
    \o (IF p.hdr_to_sdr_needed THEN <<p.hdr_reason>> ELSE <<>>)
    \o (IF p.audio_codec_needed /\ Truthy(p.audio_reason) THEN <<p.audio_reason>> ELSE <<>>)
    \o (IF p.container_needed /\ Truthy(p.container_reason) THEN <<p.container_reason>> ELSE <<>>)

\* Line 328.
ReasonStr(reasons) ==
    IF reasons # <<>> THEN "convert: " \o JoinPlus(reasons, 1) ELSE "convert"

Flag(b) == IF b THEN 1 ELSE 0

SkipEntry(file_path, reason) == [file |-> file_path, action |-> "skip", reason |-> reason]

\* Lines 304-336: the entry of a file that passed every skip rule.
CompatibilityEntry(file_path, p, creation_time, apple_metadata) ==
    LET apple == IF apple_metadata # <<>> THEN json_dumps(apple_metadata) ELSE ""
    IN  IF IsFullyCompatible(p)
        THEN [file |-> file_path,
              action |-> "move",
              reason |-> "fully compatible already",
              creation_time |-> creation_time,
              apple_metadata |-> apple,
              audio_channels |-> p.audio_channels,
              video_codec_needed |-> 0,
              audio_codec_needed |-> 0]
        ELSE [file |-> file_path,
              action |-> "convert",
              reason |-> ReasonStr(BuildReasons(p)),
              creation_time |-> creation_time,
              apple_metadata |-> apple,
              audio_channels |-> p.audio_channels,
              video_codec_needed |-> Flag(p.video_codec_needed),
              audio_codec_needed |-> Flag(p.audio_codec_needed)]

\* get_video_stream_info and the test `if not info`: ffprobe exited with 0
\* and printed a non-empty JSON object.
ProbeSucceeded(probe) == probe.returncode = 0 /\ DOMAIN probe.stdout # {}

\* Lines 228-243 with the skiplist tested before the extension.
VideoEarlySkip_skiplist_first(ext, file_path, probe, video_extensions, skiplist) ==
    IF should_skip_by_partial_match(file_path, skiplist) THEN "skiplist match"
    ELSE IF ~InList(ext, video_extensions) THEN "wrong extension"
    ELSE IF ~ProbeSucceeded(probe) THEN "ffprobe failed"
    ELSE None

\* Lines 228-243 with the file probed before the skiplist is tested.
VideoEarlySkip_probe_first(ext, file_path, probe, video_extensions, skiplist) ==
    IF ~InList(ext, video_extensions) THEN "wrong extension"
    ELSE IF ~ProbeSucceeded(probe) THEN "ffprobe failed"
    ELSE IF should_skip_by_partial_match(file_path, skiplist) THEN "skiplist match"
    ELSE None

\* Lines 228-243: the reason of the first of the three early skips that
\* applies, None when the loop body goes on to the stream loop.
VideoEarlySkip(ext, file_path, probe, video_extensions, skiplist) ==
    IF ~InList(ext, video_extensions) THEN "wrong extension"
    ELSE IF should_skip_by_partial_match(file_path, skiplist) THEN "skiplist match"
    ELSE IF ~ProbeSucceeded(probe) THEN "ffprobe failed"
    ELSE None

\* Lines 224-336: the entry appended for one walked file, with the locals
\* the iteration assigned.
EvaluateVideoFile(f, video_extensions, skiplist) ==
    LET file_path == JoinPath(f.folder_path, f.file_name)
        ext == ExtOf(f.file_name)
        early == VideoEarlySkip(ext, file_path, f.probe, video_extensions, skiplist)
    IN  IF early # None
        THEN [entry |-> SkipEntry(file_path, early), locals |-> [ext |-> ext]]
        ELSE LET info == f.probe.stdout
                 p == StreamProfile(info, ext)
                 date == ResolveDate(info, file_path, f.mtime, f.utc_offset)
                 apple_metadata == extract_apple_metadata(info)
                 assigned == [ext |-> ext, creation_time |-> date.creation_time] @@ p
             IN  IF date.skip # None
                 THEN [entry |-> SkipEntry(file_path, date.skip), locals |-> assigned]
                 ELSE [entry |-> CompatibilityEntry(file_path, p, date.creation_time,
                                                    apple_metadata),
                       locals |-> assigned]

(***************************************************************************)
(* The files and probe results the video classifier is run on              *)
(***************************************************************************)

\* Longest list of streams a probe result carries.
MaxStreams == 3

VideoHvc1Sdr ==
    [codec_type |-> "video", codec_name |-> "hevc", codec_tag_string |-> "hvc1",
     pix_fmt |-> "yuv420p", color_transfer |-> "bt709", color_primaries |-> "bt709"]

VideoHvc1Hdr ==
    [codec_type |-> "video", codec_name |-> "hevc", codec_tag_string |-> "HVC1",
     pix_fmt |-> "yuv420p10le", color_transfer |-> "smpte2084", color_primaries |-> "bt2020"]

VideoH264 ==
    [codec_type |-> "video", codec_name |-> "h264", codec_tag_string |-> "avc1",
     pix_fmt |-> "yuv420p"]

VideoHev1Hdr ==
    [codec_type |-> "video", codec_name |-> "hevc", codec_tag_string |-> "hev1",
     pix_fmt |-> "yuv420p10le", color_transfer |-> "arib-std-b67",
     color_primaries |-> "bt2020"]

AudioAacStereo == [codec_type |-> "audio", codec_name |-> "aac", channels |-> 2]

AudioMp3Mono == [codec_type |-> "audio", codec_name |-> "mp3", channels |-> 1]

DataStream ==
    [codec_type |-> "data", codec_name |-> "bin_data",
     tags |-> << <<"handler_name", "Core Media Metadata">> >>]

ProbedStreams ==
    {VideoHvc1Sdr, VideoHvc1Hdr, VideoH264, VideoHev1Hdr,
     AudioAacStereo, AudioMp3Mono, DataStream}

StreamLists == UNION {[1..n -> ProbedStreams] : n \in 0..MaxStreams}

\* The format section: without tags, with a creation_time tag, with Apple
\* QuickTime tags.
ProbedFormats ==
    {[format_name |-> "mov,mp4,m4a,3gp,3g2,mj2"],
     [format_name |-> "mov,mp4,m4a,3gp,3g2,mj2",
      tags |-> << <<"major_brand", "qt">>,
                  <<"creation_time", "2018-07-17T14:22:10.000000Z">> >>],
     [format_name |-> "mov,mp4,m4a,3gp,3g2,mj2",
      tags |-> << <<"com.apple.quicktime.make", "Apple">>,
                  <<"com.apple.quicktime.creationdate", "2018-07-17T19:37:54+0200">>,
                  <<"com.apple.quicktime.model", "iPhone 8">> >>]}

ProbeFailed == [returncode |-> 1, stdout |-> <<>>]

ProbeOk(format, streams) ==
    [returncode |-> 0, stdout |-> [format |-> format, streams |-> streams]]

\* (folder_path, file_name) pairs os.walk yields.
WalkedVideoFiles ==
    {<<"/data/2018/videos", "a.mov">>,
     <<"/data/2018/videos", "b.MP4">>,
     <<"/data/2018/2018-07-17 Summer", "c.mkv">>,
     <<"/data/2018/Trash", "d.mov">>,
     <<"/data/2018/tRASH bin", "e.gif">>,
     <<"/data/2018/videos", "f.gif">>,
     <<"/data/videos", "g.mov">>,
     <<"/data/videos", "smallclip.mov">>,
     <<"/data/x2018/2024-01 trip", "h.mp4">>,
     <<"/data/1820\\2018", "i.mov">>,
     <<"/data/2018/videos", ".mov">>,
     <<"/data/2018/videos", "noext">>}

\* os.path.getmtime: 2017-12-31T23:30:00Z, 2018-08-03T12:00:00Z,
\* 2018-12-31T23:30:00Z, 2024-01-15T10:00:00Z.
Mtimes == {1514763000, 1533297600, 1546299000, 1705312800}

\* Seconds the local clock is ahead of UTC: UTC, CET.
UtcOffsets == {0, 3600}

RuleStreamLists ==
    {<<>>,
     <<VideoHvc1Sdr, AudioAacStereo>>,
     <<VideoH264, AudioMp3Mono>>,
     <<VideoHvc1Hdr, AudioAacStereo, DataStream>>}

\* Every walked file against a failed probe and a few probe results.
RuleInputs ==
    {[folder_path |-> w[1], file_name |-> w[2], probe |-> pr,
      mtime |-> t, utc_offset |-> o] :
        w \in WalkedVideoFiles,
        pr \in {ProbeFailed}
               \cup {ProbeOk(fm, sl) : fm \in ProbedFormats, sl \in RuleStreamLists},
        t \in Mtimes, o \in UtcOffsets}

ProfiledVideoFiles ==
    {<<"/data/2018/videos", "a.mov">>, <<"/data/2018/videos", "b.MP4">>}

\* Two admissible files against every list of streams.
ProfileInputs ==
    {[folder_path |-> w[1], file_name |-> w[2], probe |-> ProbeOk(fm, sl),
      mtime |-> 1533297600, utc_offset |-> 0] :
        w \in ProfiledVideoFiles, fm \in ProbedFormats, sl \in StreamLists}

VideoInputs == RuleInputs \cup ProfileInputs

InitVideo ==
    /\ program = "video"
    /\ args \in VideoInputs
    /\ results = <<>>
    /\ locals = <<>>
    /\ ret = <<>>

\* One iteration of the file loop of evaluate_video_files.crawl_and_evaluate.
CrawlVideoFile ==
    /\ program = "video"
    /\ results = <<>>
    /\ LET r == EvaluateVideoFile(args, ONLY_HANDLE_THESE_VIDEO_EXTENSIONS,
                                  SKIPLIST_PARTIAL_MATCH)
       IN  /\ results' = Append(results, r.entry)
           /\ locals' = r.locals
    /\ UNCHANGED <<program, args, ret>>

(***************************************************************************)
(* evaluate_image_files.py                                                 *)
(***************************************************************************)

\* [e.lower() for e in ONLY_HANDLE_THESE_IMAGE_EXTENSIONS]
ONLY_HANDLE_THESE_IMAGE_EXTENSIONS == <<"jpg", "jpeg">>

\* PIL.ExifTags.TAGS.get(tag_id, tag_id), for the tags the images carry.
ExifTagName(tag_id) ==
    CASE tag_id = 36867 -> "DateTimeOriginal"
      [] tag_id = 306 -> "DateTime"
      [] tag_id = 271 -> "Make"
      [] OTHER -> "Unknown"

\* The value of the first DateTimeOriginal tag; None when the image cannot
\* be opened, has no EXIF data or has no such tag.
get_exif_date_taken(exif) ==
    IF ~exif.readable \/ exif.data = <<>> THEN None
    ELSE LET hits == {i \in 1..Len(exif.data) :
                        ExifTagName(exif.data[i][1]) = "DateTimeOriginal"}
         IN  IF hits = {} THEN None
             ELSE exif.data[CHOOSE i \in hits : \A k \in hits : i <= k][2]

\* Lines 113-125 taking the year of mtime in UTC instead of local time.
ImageDateDecision_utc_year(file_path, mtime, utc_offset) ==
    LET path_year == extract_year_from_path(file_path)
    IN  IF Truthy(path_year)
        THEN IF str(utcfromtimestamp(mtime).year) = path_year
             THEN [action |-> "move", reason |-> "date modified year correct"]
             ELSE [action |-> "skip", reason |-> "date modified year mismatch"]
        ELSE [action |-> "skip", reason |-> "no year in path"]

\* Lines 113-125: the decision by path year and local mtime year.
ImageDateDecision(file_path, mtime, utc_offset) ==
    LET path_year == extract_year_from_path(file_path)
    IN  IF Truthy(path_year)
        THEN IF str(fromtimestamp(mtime, utc_offset).year) = path_year
             THEN [action |-> "move", reason |-> "date modified year correct"]
             ELSE [action |-> "skip", reason |-> "date modified year mismatch"]
        ELSE [action |-> "skip", reason |-> "no year in path"]

\* Lines 91-125: the entry appended for one walked file.
EvaluateImageFile(f, image_extensions, skiplist) ==
    LET file_path == JoinPath(f.folder_path, f.file_name)
        ext == ExtOf(f.file_name)
    IN  IF ~InList(ext, image_extensions)
        THEN [entry |-> SkipEntry(file_path, "wrong extension"), locals |-> [ext |-> ext]]
        ELSE IF should_skip_by_partial_match(file_path, skiplist)
        THEN [entry |-> SkipEntry(file_path, "skiplist match"), locals |-> [ext |-> ext]]
        ELSE LET date_taken == get_exif_date_taken(f.exif)
             IN  IF Truthy(date_taken)
                 THEN [entry |-> [file |-> file_path, action |-> "move",
                                  reason |-> "date taken available"],
                       locals |-> [ext |-> ext, date_taken |-> date_taken]]
                 ELSE LET d == ImageDateDecision(file_path, f.mtime, f.utc_offset)
                      IN  [entry |-> [file |-> file_path, action |-> d.action,
                                      reason |-> d.reason],
                           locals |-> [ext |-> ext, date_taken |-> date_taken]]

WalkedImageFiles ==
    {<<"/data/2018/pictures", "a.jpg">>,
     <<"/data/2018/2018-04-15 Birthday", "b.JPEG">>,
     <<"/data/2018/Trash", "c.jpg">>,
     <<"/data/2018/tRASH bin", "d.png">>,
     <<"/data/2018/pictures", "e.png">>,
     <<"/data/pictures", "f.jpg">>,
     <<"/data/pictures", "2018-04-15.jpg">>,
     <<"/data/x2018/2024 trip/2018", "g.jpg">>,
     <<"/data/1820\\2018", "h.jpeg">>,
     <<"/data/2018/pictures", ".jpg">>}

\* An image that cannot be opened, one without EXIF data, one without the
\* date-taken tag, one with it, one with it empty.
ExifReads ==
    {[readable |-> FALSE, data |-> <<>>],
     [readable |-> TRUE, data |-> <<>>],
     [readable |-> TRUE, data |-> << <<271, "Canon">>, <<306, "2019:01:02 03:04:05">> >>],
     [readable |-> TRUE, data |-> << <<271, "Canon">>, <<36867, "2018:04:15 10:00:00">> >>],
     [readable |-> TRUE, data |-> << <<36867, "">> >>]}

ImageInputs ==
    {[folder_path |-> w[1], file_name |-> w[2], exif |-> e,
      mtime |-> t, utc_offset |-> o] :
        w \in WalkedImageFiles, e \in ExifReads, t \in Mtimes, o \in UtcOffsets}

InitImage ==
    /\ program = "image"
    /\ args \in ImageInputs
    /\ results = <<>>
    /\ locals = <<>>
    /\ ret = <<>>

\* One iteration of the file loop of evaluate_image_files.crawl_and_evaluate.
CrawlImageFile ==
    /\ program = "image"
    /\ results = <<>>
    /\ LET r == EvaluateImageFile(args, ONLY_HANDLE_THESE_IMAGE_EXTENSIONS,
                                  SKIPLIST_PARTIAL_MATCH)
       IN  /\ results' = Append(results, r.entry)
           /\ locals' = r.locals
    /\ UNCHANGED <<program, args, ret>>

(***************************************************************************)
(* evaluate_duplicates.py                                                  *)
(***************************************************************************)

\* 800 * 1024
SIZE_THRESHOLD_BYTES == 819200

HexDigits == "0123456789abcdef"

\* int(c, 16) of one hexadecimal digit
HexVal(c) == (CHOOSE i \in 1..Len(HexDigits) : CharAt(HexDigits, i) = c) - 1

\* imagehash.hex_to_hash: the bits of the fingerprint, four per digit, most
\* significant first.
hex_to_hash(hexstr) ==
    [i \in 1..(4 * Len(hexstr)) |->
        (HexVal(CharAt(hexstr, ((i - 1) \div 4) + 1)) \div (2 ^ (3 - ((i - 1) % 4)))) % 2]

\* ImageHash.__sub__: the number of bits in which two fingerprints differ.
HashDistance(h1, h2) == Cardinality({i \in 1..Len(h1) : h1[i] # h2[i]})

\* Line 76-78 with the threshold exclusive.
IsDupePair_below_threshold(big, small) ==
    /\ Truthy(big.phash)
    /\ Truthy(small.phash)
    /\ HashDistance(hex_to_hash(big.phash), hex_to_hash(small.phash)) < 5

\* Lines 76-78: both hashes present and at Hamming distance at most 5.
IsDupePair(big, small) ==
    /\ Truthy(big.phash)
    /\ Truthy(small.phash)
    /\ HashDistance(hex_to_hash(big.phash), hex_to_hash(small.phash)) <= 5

\* Lines 79-81 linking the big entry to the small one as well.
MarkBig_linked_back(big, small) ==
    [big EXCEPT !.dupe_type = "dupe_big", !.dupe_of = small.file]

\* Line 79: the big entry of a matching pair.
MarkBig(big, small) == [big EXCEPT !.dupe_type = "dupe_big"]

\* Lines 80-81: the small entry of a matching pair.
MarkSmall(big, small) == [small EXCEPT !.dupe_type = "dupe_small", !.dupe_of = big.file]

RECURSIVE CollectEntries(_, _, _, _)
\* Lines 54-72: the big and the small pool after the file loop from file i
\* on; a file whose size cannot be read is passed over.
CollectEntries(folder_path, files, i, pools) ==
    IF i > Len(files) THEN pools
    ELSE LET f == files[i]
         IN  IF f.getsize = <<>>
             THEN CollectEntries(folder_path, files, i + 1, pools)
             ELSE LET entry == [file |-> JoinPath(folder_path, f.file_name),
                                size |-> f.getsize[1],
                                phash |-> f.phash,
                                dupe_type |-> "",
                                dupe_of |-> ""]
                  IN  CollectEntries(folder_path, files, i + 1,
                        IF entry.size >= SIZE_THRESHOLD_BYTES
                        THEN [pools EXCEPT !.big_imgs = Append(@, entry)]
                        ELSE [pools EXCEPT !.small_imgs = Append(@, entry)])

RECURSIVE CompareLoop(_, _)
\* Lines 74-81: the nested loop from pair k on, pairs counted big-major.
CompareLoop(pools, k) ==
    LET nb == Len(pools.big_imgs)
        ns == Len(pools.small_imgs)
    IN  IF k >= nb * ns THEN pools
        ELSE LET i == (k \div ns) + 1
                 j == (k % ns) + 1
                 big == pools.big_imgs[i]
                 small == pools.small_imgs[j]
             IN  IF IsDupePair(big, small)
                 THEN CompareLoop([big_imgs |-> [pools.big_imgs EXCEPT ![i] = MarkBig(big, small)],
                                   small_imgs |-> [pools.small_imgs EXCEPT ![j] = MarkSmall(big, small)]],
                                  k + 1)
                 ELSE CompareLoop(pools, k + 1)

\* Lines 50-84.
evaluate_folder(folder_path, files) ==
    LET pools == CompareLoop(CollectEntries(folder_path, files, 1,
                                            [big_imgs |-> <<>>, small_imgs |-> <<>>]), 0)
    IN  pools.big_imgs \o pools.small_imgs

\* Most image files in the folder.
MaxImages == 3

\* os.path.getsize: raised, one byte under the threshold, the threshold.
SizeReads == {<<>>, <<819199>>, <<819200>>}

\* get_image_phash: failed, and fingerprints at distances 5, 6 and 1 from
\* one another.
PHashes == {None, "c3a1b2d4e5f60718", "c3a1b2d4e5f60707", "c3a1b2d4e5f60727"}

ImageFileName(i) == "img" \o str(i) \o ".jpg"

\* What reading one file gives: its size and fingerprint; the fingerprint of
\* a file whose size cannot be read is never computed.
ImageReads ==
    {[getsize |-> <<>>, phash |-> None]}
    \cup {[getsize |-> sz, phash |-> ph] : sz \in SizeReads \ {<<>>}, ph \in PHashes}

FolderFiles ==
    UNION {{[i \in 1..n |-> [file_name |-> ImageFileName(i),
                             getsize |-> rd[i].getsize, phash |-> rd[i].phash]] :
               rd \in [1..n -> ImageReads]} :
           n \in 0..MaxImages}

InitDupes ==
    /\ program = "dupes"
    /\ args \in {[folder_path |-> "/data/with_dupes/album", files |-> fl] : fl \in FolderFiles}
    /\ results = <<>>
    /\ locals = <<>>
    /\ ret = <<>>

\* One call of evaluate_folder; ret records that it returned.
CallEvaluateFolder ==
    /\ program = "dupes"
    /\ ret = <<>>
    /\ results' = evaluate_folder(args.folder_path, args.files)
    /\ ret' = <<TRUE>>
    /\ UNCHANGED <<program, args, locals>>

SpecDupes == InitDupes /\ [][CallEvaluateFolder]_vars

(***************************************************************************)
(* evaluate_video_files.crawl_and_evaluate: a whole run over several files *)
(***************************************************************************)

\* Most files the walk yields in a run.
MaxFiles == 2

\* Line 289 is reached and os.path.getmtime raises OSError there: nothing in
\* crawl_and_evaluate or its caller catches it.
IterationRaises(f, video_extensions, skiplist) ==
    LET file_path == JoinPath(f.folder_path, f.file_name)
    IN  /\ VideoEarlySkip(ExtOf(f.file_name), file_path, f.probe,
                          video_extensions, skiplist) = None
        /\ ~Truthy(get_creation_time_from_metadata(f.probe.stdout))
        /\ Truthy(extract_year_from_path(file_path))
        /\ f.getmtime_raises

RunFile(folder_path, file_name, probe, mtime, getmtime_raises) ==
    [folder_path |-> folder_path, file_name |-> file_name, probe |-> probe,
     mtime |-> mtime, utc_offset |-> 0, getmtime_raises |-> getmtime_raises]

TaggedFormat ==
    [format_name |-> "mov,mp4,m4a,3gp,3g2,mj2",
     tags |-> << <<"creation_time", "2018-07-17T14:22:10.000000Z">> >>]

UntaggedFormat == [format_name |-> "mov,mp4,m4a,3gp,3g2,mj2"]

\* Files of a run: compatible, to convert, not a video, unprobeable, dated by
\* its mtime, with a wrong mtime, and one whose mtime cannot be read.
RunFiles ==
    {RunFile("/data/2018/videos", "a.mov",
             ProbeOk(TaggedFormat, <<VideoHvc1Sdr, AudioAacStereo>>), 1533297600, FALSE),
     RunFile("/data/2018/videos", "b.MP4",
             ProbeOk(TaggedFormat, <<VideoH264, AudioMp3Mono>>), 1533297600, FALSE),
     RunFile("/data/2018/videos", "c.gif", ProbeFailed, 1533297600, TRUE),
     RunFile("/data/2018/videos", "d.mkv", ProbeFailed, 1533297600, FALSE),
     RunFile("/data/2018/videos", "e.mov",
             ProbeOk(UntaggedFormat, <<VideoHvc1Sdr, AudioAacStereo>>), 1533297600, FALSE),
     RunFile("/data/2018/videos", "f.mov",
             ProbeOk(UntaggedFormat, <<VideoHvc1Sdr, AudioAacStereo>>), 1705312800, FALSE),
     RunFile("/data/2018/videos", "g.mov",
             ProbeOk(UntaggedFormat, <<VideoHvc1Sdr, AudioAacStereo>>), 1533297600, TRUE)}

InitRun ==
    /\ program = "videorun"
    /\ args \in UNION {[1..n -> RunFiles] : n \in 0..MaxFiles}
    /\ results = <<>>
    /\ locals = <<>>
    /\ ret = <<>>

\* crawl_and_evaluate, one step per iteration of the file loop and one for
\* the return; an exception ends the call, and the list is lost with it.
CrawlVideoRun ==
    /\ program = "videorun"
    /\ ret = <<>>
    /\ LET i == Len(results) + 1
       IN  IF i > Len(args)
           THEN /\ ret' = <<"returned">>
                /\ UNCHANGED <<results, locals>>
           ELSE IF IterationRaises(args[i], ONLY_HANDLE_THESE_VIDEO_EXTENSIONS,
                                   SKIPLIST_PARTIAL_MATCH)
           THEN /\ ret' = <<"OSError">>
                /\ results' = <<>>
                /\ UNCHANGED locals
           ELSE LET r == EvaluateVideoFile(args[i], ONLY_HANDLE_THESE_VIDEO_EXTENSIONS,
                                           SKIPLIST_PARTIAL_MATCH)
                IN  /\ results' = Append(results, r.entry)
                    /\ locals' = r.locals
                    /\ UNCHANGED ret
    /\ UNCHANGED <<program, args>>

\* The runs of the video classifier and of the duplicate matcher.
SpecRuns == (InitRun \/ InitDupes) /\ [][CrawlVideoRun \/ CallEvaluateFolder]_vars

(***************************************************************************)
(* process_video_files.py: values and library calls                        *)
(***************************************************************************)

\* Line 16 as far as its closing quote; the rest of that line is a pasted
\* ffmpeg command that is no part of the value.
PROCESSED_VIDEO_FOLDER_PATH == "data\\processed_videos\\2021"

FFMPEG_BINARY_PATH == "C:\\Program Files\\ffmpeg\\5.1\\bin\\ffmpeg.exe"

EXIFTOOL_BINARY_PATH == "C:\\Program Files\\exiftool\\exiftool.exe"

\* pd.notna of a cell read with dtype=str: an empty cell is NaN, here None.
notna(v) == v # None

\* An exception, as the handler of line 188 reads it.
Raise(type, msg) == [raised |-> TRUE, type |-> type, msg |-> msg]

\* A value handed on without an exception.
Value(v) == [raised |-> FALSE, v |-> v]

AllDigits(s) == \A i \in 1..Len(s) : IsDigit(CharAt(s, i))

RECURSIVE int(_)
\* int(s) of a string of digits
int(s) ==
    IF s = "" THEN 0
    ELSE 10 * int(SubSeq(s, 1, Len(s) - 1))
         + (CHOOSE d \in 0..9 : CharAt(Digits, d + 1) = CharAt(s, Len(s)))

\* int(float(cell)) for an unsigned decimal cell; NaN and text raise
\* ValueError.
int_float(cell) ==
    IF cell = None
    THEN Raise("ValueError", "cannot convert float NaN to integer")
    ELSE LET dots == {i \in 1..Len(cell) : CharAt(cell, i) = "."}
             whole == IF dots = {} THEN cell
                      ELSE SubSeq(cell, 1, (CHOOSE i \in dots : \A k \in dots : i <= k) - 1)
             frac == IF dots = {} THEN ""
                     ELSE SubSeq(cell, (CHOOSE i \in dots : \A k \in dots : i <= k) + 1,
                                 Len(cell))
         IN  IF whole # "" /\ AllDigits(whole) /\ AllDigits(frac)
             THEN Value(int(whole))
             ELSE Raise("ValueError",
                        "could not convert string to float: '" \o cell \o "'")

RECURSIVE replace_Z(_)
\* s.replace('Z', '')
replace_Z(s) ==
    IF s = "" THEN ""
    ELSE (IF CharAt(s, 1) = "Z" THEN "" ELSE CharAt(s, 1))
         \o replace_Z(SubSeq(s, 2, Len(s)))

\* Day number (days since 1970-01-01) of a proleptic Gregorian date.
DaysFromCivil(y, m, d) ==
    LET yy == IF m <= 2 THEN y - 1 ELSE y
        era == yy \div 400
        yoe == yy - era * 400
        doy == ((153 * (IF m > 2 THEN m - 3 ELSE m + 9) + 2) \div 5) + d - 1
        doe == yoe * 365 + (yoe \div 4) - (yoe \div 100) + doy
    IN  era * 146097 + doe - 719468

\* The datetime of six parsed fields, <<>> for the ValueError of a field out
\* of range.
datetime(dt) ==
    IF /\ dt.month \in 1..12
       /\ dt.day >= 1
       /\ CivilFromDays(DaysFromCivil(dt.year, dt.month, dt.day)).day = dt.day
       /\ dt.hour <= 23 /\ dt.minute <= 59 /\ dt.second <= 59
    THEN <<dt>>
    ELSE <<>>

\* datetime.strptime(s, '%Y-%m-%dT%H:%M:%S.%f') on zero-padded fields: the
\* six fields, or <<>> for the ValueError of a text that does not match.
strptime_f(s) ==
    IF /\ Len(s) >= 21
       /\ Len(s) <= 26
       /\ CharAt(s, 5) = "-" /\ CharAt(s, 8) = "-" /\ CharAt(s, 11) = "T"
       /\ CharAt(s, 14) = ":" /\ CharAt(s, 17) = ":" /\ CharAt(s, 20) = "."
       /\ \A i \in (1..Len(s)) \ {5, 8, 11, 14, 17, 20} : IsDigit(CharAt(s, i))
    THEN datetime([year |-> int(SubSeq(s, 1, 4)), month |-> int(SubSeq(s, 6, 7)),
                   day |-> int(SubSeq(s, 9, 10)), hour |-> int(SubSeq(s, 12, 13)),
                   minute |-> int(SubSeq(s, 15, 16)), second |-> int(SubSeq(s, 18, 19))])
    ELSE <<>>

\* dt.replace(tzinfo=timezone.utc).timestamp(), in whole seconds
timestamp(dt) ==
    DaysFromCivil(dt.year, dt.month, dt.day) * 86400
    + dt.hour * 3600 + dt.minute * 60 + dt.second

\* Day number of the last Sunday of a month of 31 days.
LastSunday(year, month) ==
    DaysFromCivil(year, month, 31) - ((DaysFromCivil(year, month, 31) + 4) % 7)

\* Summer time runs from 01:00 UTC on the last Sunday of March to 01:00 UTC
\* on the last Sunday of October.
SummerTime(t, year) ==
    /\ t >= LastSunday(year, 3) * 86400 + 3600
    /\ t < LastSunday(year, 10) * 86400 + 3600

\* Seconds Europe/Brussels is ahead of UTC at t.
LOCAL_TIMEZONE(t) == IF SummerTime(t, utcfromtimestamp(t).year) THEN 7200 ELSE 3600

\* datetime.fromtimestamp(t, LOCAL_TIMEZONE)
LocalClock(t) == utcfromtimestamp(t + LOCAL_TIMEZONE(t))

\* dt_utc.astimezone(LOCAL_TIMEZONE)
astimezone(dt_utc) == LocalClock(timestamp(dt_utc))

\* dt_local.strftime('%Y%m%d_%H%M%S-')
strftime(dt) ==
    Pad4(dt.year) \o Pad2(dt.month) \o Pad2(dt.day) \o "_"
    \o Pad2(dt.hour) \o Pad2(dt.minute) \o Pad2(dt.second) \o "-"

\* ntpath.basename(path)
basename(path) ==
    LET seps == {i \in 1..Len(path) : IsSeparator(CharAt(path, i))}
    IN  IF seps = {} THEN path
        ELSE SubSeq(path, (CHOOSE i \in seps : \A k \in seps : k <= i) + 1, Len(path))

\* os.path.splitext(name)[0]
splitext_root(name) == SubSeq(name, 1, Len(name) - Len(splitext_ext(name)))

\* ntpath.join(folder, name) for a relative name
path_join(folder, name) == folder \o "\\" \o name

(***************************************************************************)
(* process_video_files.convert_video                                       *)
(***************************************************************************)

\* Truth value of a cell: NaN and every non-empty text are true.
CellTruthy(cell) == cell # ""

\* f'{cell}'
fstr(cell) == IF cell = None THEN "nan" ELSE cell

\* The file system with one file written or replaced.
WriteFile(fs, path, file) ==
    [p \in DOMAIN fs \cup {path} |-> IF p = path THEN file ELSE fs[p]]

\* Lines 22-51 with the stream copied through whatever the flag says.
ffmpeg_cmd_copy_video(src, dst, creation_time, video_codec_needed, audio_codec_needed, audio_channels) ==
    <<FFMPEG_BINARY_PATH, "-y", "-i", src>>
    \o <<"-c:v", "copy">>
    \o (IF audio_codec_needed
        THEN <<"-c:a", "aac", "-ar", "44100", "-b:a", "100k">>
             \o (IF audio_channels = 1 THEN <<"-ac", "1">> ELSE <<"-ac", "2">>)
        ELSE <<"-c:a", "copy">>)
    \o (IF CellTruthy(creation_time)
        THEN <<"-metadata", "creation_time=" \o fstr(creation_time)>>
        ELSE <<>>)
    \o <<"-movflags", "+write_colr+faststart", dst>>

\* The ffmpeg command line of lines 22-51.
ffmpeg_cmd(src, dst, creation_time, video_codec_needed, audio_codec_needed, audio_channels) ==
    <<FFMPEG_BINARY_PATH, "-y", "-i", src>>
    \o (IF video_codec_needed
        THEN <<"-c:v", "libx265", "-tag:v", "hvc1", "-profile:v", "main",
               "-level:v", "4.0", "-pix_fmt", "yuv420p", "-r", "30",
               "-x265-params",
               "keyint=60:min-keyint=60:scenecut=0:bframes=4:open-gop=0:repeat-headers=1",
               "-color_primaries", "bt709", "-color_trc", "bt709",
               "-colorspace", "bt709">>
        ELSE <<"-c:v", "copy">>)
    \o (IF audio_codec_needed
        THEN <<"-c:a", "aac", "-ar", "44100", "-b:a", "100k">>
             \o (IF audio_channels = 1 THEN <<"-ac", "1">> ELSE <<"-ac", "2">>)
        ELSE <<"-c:a", "copy">>)
    \o (IF CellTruthy(creation_time)
        THEN <<"-metadata", "creation_time=" \o fstr(creation_time)>>
        ELSE <<>>)
    \o <<"-movflags", "+write_colr+faststart", dst>>

\* next((v for k, v in apple_metadata.items() if word in k.lower()), None)
FirstValueWith(items, word) ==
    LET hits == {i \in 1..Len(items) : In(word, lower(items[i][1]))}
    IN  IF hits = {} THEN None
        ELSE items[CHOOSE i \in hits : \A k \in hits : i <= k][2]

\* One of the three tag blocks of lines 71-84.
AppleTag(items, word, option) ==
    LET v == FirstValueWith(items, word)
    IN  IF Truthy(v) THEN <<option \o v>> ELSE <<>>

\* The exiftool command line of lines 59-86; apple_metadata is the items of
\* the dict, <<>> for None and for {}.
exiftool_cmd(dst, creation_time, apple_metadata) ==
    <<EXIFTOOL_BINARY_PATH, "-overwrite_original">>
    \o (IF CellTruthy(creation_time)
        THEN <<"-QuickTime:CreateDate=" \o fstr(creation_time),
               "-QuickTime:ModifyDate=" \o fstr(creation_time),
               "-QuickTime:TrackCreateDate=" \o fstr(creation_time),
               "-QuickTime:TrackModifyDate=" \o fstr(creation_time),
               "-QuickTime:MediaCreateDate=" \o fstr(creation_time),
               "-QuickTime:MediaModifyDate=" \o fstr(creation_time)>>
        ELSE <<>>)
    \o AppleTag(apple_metadata, "make", "-QuickTime:Make=")
    \o AppleTag(apple_metadata, "model", "-QuickTime:Model=")
    \o AppleTag(apple_metadata, "software", "-QuickTime:Software=")
    \o <<dst>>

\* datetime.strptime(s[:19], '%Y-%m-%dT%H:%M:%S'), <<>> for its ValueError
strptime_19(s) ==
    IF Len(s) >= 19 THEN strptime_f(SubSeq(s, 1, 19) \o ".0") ELSE <<>>

\* Lines 96-106 on a creation_time whose text without 'Z' is text, whose
\* first 19 characters parse to whole and whose text parses with a fraction
\* to fraction: a text with a final Z is read by fromisoformat as UTC when it
\* has no fraction or one of 3 or 6 digits; any other is a wall clock of the
\* machine, utc_offset seconds ahead of UTC.
TimestampOf(creation_time, text, whole, fraction, utc_offset) ==
    IF whole = <<>> THEN <<>>
    ELSE IF /\ Len(creation_time) = Len(text) + 1
            /\ CharAt(creation_time, Len(creation_time)) = "Z"
            /\ \/ Len(text) = 19
               \/ Len(text) \in {23, 26} /\ fraction # <<>>
    THEN <<timestamp(whole[1])>>
    ELSE <<timestamp(whole[1]) - utc_offset>>

\* Lines 96-106: the instant creation_time names, <<>> when neither
\* fromisoformat nor the strptime of its first 19 characters reads it.
creation_timestamp(creation_time, utc_offset) ==
    IF creation_time = None THEN <<>>
    ELSE TimestampOf(creation_time, replace_Z(creation_time),
                     strptime_19(creation_time),
                     strptime_f(replace_Z(creation_time)), utc_offset)

\* What subprocess.run(cmd, check=True) of ffmpeg can do with a source: a
\* missing or damaged source makes it exit non-zero, leaving nothing or a
\* truncated output behind.
FfmpegOutcomes(fs, src) ==
    IF src \notin DOMAIN fs THEN {"failed"}
    ELSE IF fs[src].data = "damaged" THEN {"failed", "failed, output truncated"}
    ELSE {"done"}

\* The output ffmpeg wrote, after exiftool (if installed) and os.utime (if
\* creation_time names an instant at).
ConvertedFile(written, env, at) ==
    [data |-> IF env.exiftool THEN written.data \o ", tagged" ELSE written.data,
     size |-> written.size,
     mtime |-> IF at = <<>> THEN written.mtime ELSE at[1]]

\* Lines 53-106 for the command line cmd.
RunConversion(fs, calls, env, outcome, src, dst, creation_time, apple_metadata, cmd) ==
    IF outcome = "done"
    THEN [raised |-> FALSE,
          fs |-> WriteFile(fs, dst,
                           ConvertedFile([data |-> "ffmpeg output of " \o fs[src].data,
                                          size |-> fs[src].size + 1, mtime |-> env.now],
                                         env,
                                         creation_timestamp(creation_time, env.utc_offset))),
          calls |-> calls \o <<cmd>>
                    \o (IF env.exiftool
                        THEN <<exiftool_cmd(dst, creation_time, apple_metadata)>>
                        ELSE <<>>)]
    ELSE [raised |-> TRUE, type |-> "CalledProcessError",
          msg |-> "Command returned non-zero exit status 1.",
          fs |-> IF outcome = "failed, output truncated"
                 THEN WriteFile(fs, dst, [data |-> "truncated", size |-> 1,
                                          mtime |-> env.now])
                 ELSE fs,
          calls |-> calls \o <<cmd>>]

\* convert_video(src, dst, ...) on the file system fs: the files and the
\* subprocess calls after it, and the exception if it raised one.
convert_video(fs, calls, env, outcome, src, dst, creation_time, video_codec_needed, audio_codec_needed, audio_channels, apple_metadata) ==
    RunConversion(fs, calls, env, outcome, src, dst, creation_time, apple_metadata,
                  ffmpeg_cmd(src, dst, creation_time, video_codec_needed,
                             audio_codec_needed, audio_channels))

(***************************************************************************)
(* process_video_files.process_actions_from_csv                            *)
(***************************************************************************)

\* The apple_metadata dicts the classifier writes, as their items.
KnownMetadata ==
    {<< <<"com.apple.quicktime.make", "Apple">>,
        <<"com.apple.quicktime.model", "iPhone 8">> >>,
     << <<"com.apple.quicktime.software", "12.1">> >>}

\* json.loads(cell): the dict whose dump the cell is, else JSONDecodeError.
json_loads(cell) ==
    IF \E m \in KnownMetadata : json_dumps(m) = cell
    THEN Value(CHOOSE m \in KnownMetadata : json_dumps(m) = cell)
    ELSE Raise("JSONDecodeError", "Expecting value: line 1 column 1 (char 0)")

\* Lines 143-145 for the parsed creation time, <<>> when it did not parse.
PrefixOf(parsed) ==
    IF parsed = <<>>
    THEN [prefix |-> "unknown_", dt_utc |-> <<>>]
    ELSE [prefix |-> strftime(astimezone(parsed[1])), dt_utc |-> parsed]

\* Lines 134-148: the file name prefix and the parsed datetime (<<>> for
\* None) of a creation_time cell.
DerivePrefix(creation_time) ==
    PrefixOf(IF CellTruthy(creation_time) /\ notna(creation_time)
             THEN strptime_f(replace_Z(creation_time))
             ELSE <<>>)

\* Lines 188-193: the row and the file system after an exception e.
RowFailed(row, fs, calls, e) ==
    [row |-> [row EXCEPT !.processing_status = "ERROR: " \o e.type \o ": " \o e.msg],
     fs |-> fs, calls |-> calls]

\* The test of line 161 never finding a destination.
DestinationExists_never(fs, out_path) == FALSE

\* os.path.exists(out_path) and os.path.getsize(out_path) > 0
DestinationExists(fs, out_path) == out_path \in DOMAIN fs /\ fs[out_path].size > 0

\* Lines 171-172 and 181-182: os.utime with the parsed creation time.
Touch(f, dt_utc) == IF dt_utc = <<>> THEN f ELSE [f EXCEPT !.mtime = timestamp(dt_utc[1])]

\* Lines 177-185: the row after convert_video ended as c.
RowConverted(named, dt_utc, out_path, c) ==
    IF c.raised
    THEN RowFailed(named, c.fs, c.calls, c)
    ELSE [row |-> [named EXCEPT !.processing_status = "SUCCESS"],
          fs |-> WriteFile(c.fs, out_path, Touch(c.fs[out_path], dt_utc)),
          calls |-> c.calls]

\* Lines 158-186: the test for a destination that is already there, and the
\* copy or the conversion to out_path.
RowAtPath(row, fs, calls, env, outcome, creation_time, apple_metadata, audio_channels, video_codec_needed, audio_codec_needed, dt_utc, out_path, named) ==
    IF DestinationExists(fs, out_path)
    THEN [row |-> [named EXCEPT !.processing_status = "SKIPPED: file already exists"],
          fs |-> fs, calls |-> calls]
    ELSE IF row.action = "move"
    THEN IF row.file \notin DOMAIN fs
         THEN RowFailed(named, fs, calls,
                        Raise("FileNotFoundError",
                              "[Errno 2] No such file or directory: '"
                              \o row.file \o "'"))
         ELSE [row |-> [named EXCEPT !.processing_status = "SUCCESS"],
               fs |-> WriteFile(fs, out_path, Touch(fs[row.file], dt_utc)),
               calls |-> calls \o << <<"shutil.copy2", row.file, out_path>> >>]
    ELSE IF row.action = "convert"
    THEN RowConverted(named, dt_utc, out_path,
                      convert_video(fs, calls, env, outcome, row.file, out_path,
                                    creation_time, video_codec_needed,
                                    audio_codec_needed, audio_channels, apple_metadata))
    ELSE [row |-> named, fs |-> fs, calls |-> calls]

\* Lines 150-157: the destination path of a row with the prefix derived.
OutPath(row, derived) ==
    path_join(PROCESSED_VIDEO_FOLDER_PATH,
              IF row.action = "convert"
              THEN derived.prefix \o splitext_root(basename(row.file)) \o ".mov"
              ELSE derived.prefix \o basename(row.file))

\* Lines 149-186 for the prefix derived and the destination out_path.
RowWithPrefix(row, fs, calls, env, outcome, creation_time, apple_metadata, audio_channels, video_codec_needed, audio_codec_needed, derived, out_path) ==
    RowAtPath(row, fs, calls, env, outcome, creation_time, apple_metadata,
              audio_channels, video_codec_needed, audio_codec_needed,
              derived.dt_utc, out_path, [row EXCEPT !.derived_file = out_path])

\* Lines 134-186: the prefix, the destination path, and the copy or the
\* conversion; os.path.basename raises on a file cell that is NaN.
RowFromPath(row, fs, calls, env, outcome, creation_time, apple_metadata, audio_channels, video_codec_needed, audio_codec_needed) ==
    IF row.file = None
    THEN RowFailed(row, fs, calls,
                   Raise("TypeError",
                         "expected str, bytes or os.PathLike object, not float"))
    ELSE RowWithPrefix(row, fs, calls, env, outcome, creation_time, apple_metadata,
                       audio_channels, video_codec_needed, audio_codec_needed,
                       DerivePrefix(creation_time),
                       OutPath(row, DerivePrefix(creation_time)))

\* The handler of lines 188-193 letting the exception through: the row keeps
\* its empty status.
ParseFailed_unrecorded(row, fs, calls, e) == [row |-> row, fs |-> fs, calls |-> calls]

\* Lines 188-193 for an exception raised while the cells are parsed.
ParseFailed(row, fs, calls, e) == RowFailed(row, fs, calls, e)

\* Lines 130-186 once the cells before them are parsed.
RowWithCells(row, fs, calls, env, outcome, apple_metadata, audio_channels, video_codec_needed, audio_codec_needed) ==
    IF apple_metadata.raised THEN ParseFailed(row, fs, calls, apple_metadata)
    ELSE IF audio_channels.raised THEN ParseFailed(row, fs, calls, audio_channels)
    ELSE IF video_codec_needed.raised THEN ParseFailed(row, fs, calls, video_codec_needed)
    ELSE IF audio_codec_needed.raised THEN ParseFailed(row, fs, calls, audio_codec_needed)
    ELSE RowFromPath(row, fs, calls, env, outcome, Get(row, "creation_time"),
                     apple_metadata.v, audio_channels.v,
                     video_codec_needed.v # 0, audio_codec_needed.v # 0)

\* One iteration of the row loop (lines 117-193): the row, the file system
\* and the subprocess calls after it.
ProcessRow(row, fs, calls, env, outcome) ==
    IF row.action = "skip" THEN [row |-> row, fs |-> fs, calls |-> calls]
    ELSE RowWithCells(row, fs, calls, env, outcome,
                      IF "apple_metadata" \in DOMAIN row /\ notna(row.apple_metadata)
                      THEN json_loads(row.apple_metadata)
                      ELSE Value(<<>>),
                      IF notna(Get(row, "audio_channels"))
                      THEN int_float(Get(row, "audio_channels"))
                      ELSE Value(2),
                      int_float(GetDefault(row, "video_codec_needed", "1")),
                      int_float(GetDefault(row, "audio_codec_needed", "1")))

\* Most rows of a report.
MaxRows == 2

\* Most runs of the executor over the same report.
MaxRuns == 2

TaggedTime == "2018-07-17T14:22:10.000000Z"

MtimeTime == "2018-08-03T12:00:00Z"

ReportRow(file, action, creation_time, video_codec_needed, audio_codec_needed, audio_channels, apple_metadata) ==
    [file |-> file, action |-> action, creation_time |-> creation_time,
     video_codec_needed |-> video_codec_needed,
     audio_codec_needed |-> audio_codec_needed,
     audio_channels |-> audio_channels, apple_metadata |-> apple_metadata]

AppleCell ==
    json_dumps(<< <<"com.apple.quicktime.make", "Apple">>,
                  <<"com.apple.quicktime.model", "iPhone 8">> >>)

\* Rows of a report: moves (one of an empty file, one of a file that is
\* gone), conversions with each pair of flags, of a damaged file and with a
\* cell that cannot be parsed, and a skip.
ReportRows ==
    {ReportRow("/data/2018/a.mov", "move", TaggedTime, "0", "0", "2", AppleCell),
     ReportRow("/data/2018/empty.mov", "move", MtimeTime, "0", "0", None, None),
     ReportRow("/data/2018/gone.mov", "move", TaggedTime, "0", "0", "2", None),
     ReportRow("/data/2018/b.MP4", "convert", TaggedTime, "1", "1", "1", AppleCell),
     ReportRow("/data/2018/c.mov", "convert", MtimeTime, "0", "1", None, None),
     ReportRow("/data/2018/d.mov", "convert", TaggedTime, "1.0", "0", "2", None),
     ReportRow("/data/2018/e.mp4", "convert", None, "0", "0", "6", None),
     ReportRow("/data/2018/damaged.mov", "convert", TaggedTime, "1", "1", "2", None),
     ReportRow("/data/2018/a.mov", "convert", TaggedTime, "x", "1", "2", None),
     ReportRow("/data/2018/f.gif", "skip", None, None, None, None, None)}

SourceFile(data, size) == [data |-> data, size |-> size, mtime |-> 1533297600]

\* The files under the scanned root.
SourceFiles ==
    [p \in {"/data/2018/a.mov", "/data/2018/empty.mov",
            "/data/2018/b.MP4", "/data/2018/c.mov", "/data/2018/d.mov",
            "/data/2018/e.mp4", "/data/2018/damaged.mov", "/data/2018/f.gif"} |->
        CASE p = "/data/2018/empty.mov" -> SourceFile("", 0)
          [] p = "/data/2018/damaged.mov" -> SourceFile("damaged", 4096)
          [] OTHER -> SourceFile("video of " \o p, 1048576)]

\* What the output folder holds before the first run: nothing, an earlier
\* output, or an empty file left behind under the name of an output.
OutputFolders ==
    {<<>>,
     << <<"data\\processed_videos\\2021\\20180717_162210-a.mov",
          [data |-> "earlier output", size |-> 2048, mtime |-> 1531837330]>> >>,
     << <<"data\\processed_videos\\2021\\20180717_162210-a.mov",
          [data |-> "", size |-> 0, mtime |-> 1531837330]>> >>}

RECURSIVE WriteAll(_, _)
WriteAll(fs, files) ==
    IF files = <<>> THEN fs
    ELSE WriteAll(WriteFile(fs, files[1][1], files[1][2]), Tail(files))

\* The machine: whether exiftool is installed, the clock, the time zone.
Machines ==
    {[exiftool |-> x, now |-> 1762214400, utc_offset |-> 3600] : x \in BOOLEAN}

ProcessInputs ==
    {[rows |-> rows, fs |-> WriteAll(SourceFiles, out), env |-> env] :
        rows \in UNION {[1..n -> ReportRows] : n \in 0..MaxRows},
        out \in OutputFolders, env \in Machines}

InitProcess ==
    /\ program = "process"
    /\ args \in ProcessInputs
    /\ results = <<>>
    /\ locals = [idx |-> 0, run |-> 0, fs |-> args.fs, calls |-> <<>>, earlier |-> <<>>]
    /\ ret = <<>>

\* Lines 110-115: process_actions_from_csv is entered, for the first time or
\* again after it returned; the report is read and the two columns are added.
\* locals.earlier keeps the frame the run before returned.
ReadCsv ==
    /\ program = "process"
    /\ \/ locals.idx = 0
       \/ ret = <<"returned">> /\ locals.run < MaxRuns
    /\ results' = [i \in 1..Len(args.rows) |->
                      [c \in DOMAIN args.rows[i] \cup {"derived_file", "processing_status"} |->
                          IF c = "derived_file" THEN None
                          ELSE IF c = "processing_status" THEN ""
                          ELSE args.rows[i][c]]]
    /\ locals' = [locals EXCEPT !.idx = 1, !.run = @ + 1, !.earlier = results]
    /\ ret' = IF Len(args.rows) = 0 THEN <<"returned">> ELSE <<>>
    /\ UNCHANGED <<program, args>>

\* One iteration of the loop of line 117, and the return after the last.
ProcessNextRow ==
    /\ program = "process"
    /\ ret = <<>>
    /\ locals.idx \in 1..Len(results)
    /\ \E outcome \in FfmpegOutcomes(locals.fs, results[locals.idx].file) :
          LET r == ProcessRow(results[locals.idx], locals.fs, locals.calls,
                              args.env, outcome)
          IN  /\ results' = [results EXCEPT ![locals.idx] = r.row]
              /\ locals' = [locals EXCEPT !.idx = @ + 1, !.fs = r.fs, !.calls = r.calls]
    /\ ret' = IF locals.idx = Len(results) THEN <<"returned">> ELSE <<>>
    /\ UNCHANGED <<program, args>>

SpecProcess == InitProcess /\ [][ReadCsv \/ ProcessNextRow]_vars

(***************************************************************************)
(* The three programs                                                      *)
(***************************************************************************)

Init == InitHdr \/ InitVideo \/ InitImage

Next == CallIsHdrStream \/ CrawlVideoFile \/ CrawlImageFile

Spec == Init /\ [][Next]_vars

(***************************************************************************)
(* Claims about the video classifier                                       *)
(***************************************************************************)

VideoDone == program = "video" /\ results # <<>>
ImageDone == program = "image" /\ results # <<>>

\* What the rules are about, read off the walked file.
ArgPath == JoinPath(args.folder_path, args.file_name)
ArgExt == ExtOf(args.file_name)
ArgExtAllowed ==
    IF program = "video" THEN ArgExt \in {"mkv", "mp4", "mov"} ELSE ArgExt \in {"jpg", "jpeg"}
ArgSkiplisted ==
    \E k \in {"goef", "elia", "bbm", "trash", "small"} : In(k, lower(ArgPath))
ArgProbeFailed == args.probe.returncode # 0
ArgHasMetadataDate == Truthy(get_creation_time_from_metadata(args.probe.stdout))
ArgPathYear == extract_year_from_path(ArgPath)
ArgLocalYear == fromtimestamp(args.mtime, args.utc_offset).year
ArgDateReason ==
    IF ArgHasMetadataDate THEN None
    ELSE IF ArgPathYear = None THEN "no year in path"
    ELSE IF str(ArgLocalYear) # ArgPathYear THEN "file modified time mismatch"
    ELSE None

\* C1: the skip rules are tried in the order wrong extension, skiplist match,
\* ffprobe failed, date inadmissible; the recorded reason is that of the
\* earliest rule that matches, and the file is moved or converted only when
\* none of the four matches.
C1_SkipRulesInOrder ==
    VideoDone =>
        LET e == results[1]
        IN  IF ~ArgExtAllowed THEN e.action = "skip" /\ e.reason = "wrong extension"
            ELSE IF ArgSkiplisted THEN e.action = "skip" /\ e.reason = "skiplist match"
            ELSE IF ArgProbeFailed THEN e.action = "skip" /\ e.reason = "ffprobe failed"
            ELSE IF ArgDateReason # None THEN e.action = "skip" /\ e.reason = ArgDateReason
            ELSE e.action \in {"move", "convert"}

\* C1 witness: a file on the skiplist whose probe failed as well was
\* skipped for the skiplist match, the earlier of the two rules.
C1_Witness ==
    /\ VideoDone
    /\ ArgExtAllowed
    /\ ArgSkiplisted
    /\ ArgProbeFailed
    /\ results[1].reason = "skiplist match"

\* The last stream of a type in the probe result, 0 when there is none.
LastIndexOfType(streams, type) ==
    LET idx == {i \in 1..Len(streams) : Get(streams[i], "codec_type") = type}
    IN  IF idx = {} THEN 0 ELSE CHOOSE i \in idx : \A k \in idx : k <= i

ArgStreams == args.probe.stdout.streams
ArgLastVideo == LastIndexOfType(ArgStreams, "video")
ArgLastAudio == LastIndexOfType(ArgStreams, "audio")

StreamIsHvc1(st) ==
    Get(st, "codec_name") = "hevc" /\ lower(Get(st, "codec_tag_string")) = "hvc1"
StreamIsHdr(st) == HdrCondA(st) \/ HdrCondB(st) \/ HdrCondC(st)

\* The video stream is hevc/hvc1, is HDR; the audio stream is aac: read on
\* the last stream of the type.
ArgVideoIsHvc1 == ArgLastVideo # 0 /\ StreamIsHvc1(ArgStreams[ArgLastVideo])
ArgVideoIsHdr == ArgLastVideo # 0 /\ StreamIsHdr(ArgStreams[ArgLastVideo])
ArgAudioIsAac == ArgLastAudio # 0 /\ Get(ArgStreams[ArgLastAudio], "codec_name") = "aac"

VideoPassed == VideoDone /\ results[1].action \in {"move", "convert"}

\* C2: a video that passes the four skip rules is moved, with reason "fully
\* compatible already", exactly when its video stream is hevc/hvc1 and not
\* HDR, its audio stream is aac and its extension is mov, and is converted
\* otherwise; a move record carries creation_time, apple_metadata and
\* audio_channels and has both codec flags 0.
C2_MoveIffFullyCompatible ==
    VideoPassed =>
        LET e == results[1]
        IN  /\ e.action = "move" <=>
                  (ArgVideoIsHvc1 /\ ~ArgVideoIsHdr /\ ArgAudioIsAac /\ ArgExt = "mov")
            /\ e.action = "move" =>
                  /\ e.reason = "fully compatible already"
                  /\ {"creation_time", "apple_metadata", "audio_channels"} \subseteq DOMAIN e
                  /\ e.video_codec_needed = 0
                  /\ e.audio_codec_needed = 0

\* C3: a convert decision has at least one of the four need-flags true,
\* whatever the list of probed streams.
C3_ConvertHasNeedFlag ==
    (VideoDone /\ results[1].action = "convert") =>
        \/ results[1].video_codec_needed = 1
        \/ results[1].audio_codec_needed = 1
        \/ locals.container_needed
        \/ locals.hdr_to_sdr_needed

\* C3 witness: a file with two video streams was converted with HDR to SDR
\* as the only flag set.
C3_Witness ==
    /\ VideoDone
    /\ results[1].action = "convert"
    /\ results[1].video_codec_needed = 0
    /\ results[1].audio_codec_needed = 0
    /\ ~locals.container_needed
    /\ locals.hdr_to_sdr_needed
    /\ Cardinality({i \in 1..Len(ArgStreams) : ArgStreams[i].codec_type = "video"}) = 2

\* The reason the claim composes: the tokens in the fixed order.
ClaimedTokens ==
    (IF ~ArgVideoIsHvc1 THEN <<"video codec">> ELSE <<>>)
    \o (IF ArgVideoIsHdr THEN <<"HDR to SDR">> ELSE <<>>)
    \o (IF ~ArgAudioIsAac THEN <<"audio codec">> ELSE <<>>)
    \o (IF ArgExt # "mov" THEN <<"container">> ELSE <<>>)

RECURSIVE PlusJoined(_)
PlusJoined(tokens) ==
    IF tokens = <<>> THEN ""
    ELSE IF Len(tokens) = 1 THEN tokens[1]
    ELSE tokens[1] \o "+" \o PlusJoined(Tail(tokens))

\* C4: the reason of a convert decision is "convert: " followed by the
\* tokens video codec (the video is not hevc/hvc1), HDR to SDR (HDR
\* detected), audio codec (the audio is not aac), container (the extension
\* is not mov), those present joined with "+" in that order.
C4_ReasonNamesWhatChanges ==
    (VideoDone /\ results[1].action = "convert") =>
        results[1].reason = "convert: " \o PlusJoined(ClaimedTokens)

\* C5 as stated: in both classifiers a file whose path contains a skiplist
\* keyword in any letter case is skipped with reason "skiplist match",
\* whatever its extension, probe result and dates.
C5_Original_SkiplistAlwaysWins ==
    ((VideoDone \/ ImageDone) /\ ArgSkiplisted) =>
        results[1].action = "skip" /\ results[1].reason = "skiplist match"

\* C5 amended: in both classifiers a file whose path contains a skiplist
\* keyword in any letter case is always skipped, whatever its probe result
\* and dates: with reason "skiplist match" when its extension is an allowed
\* one, with reason "wrong extension" when it is not.
C5_SkiplistAfterExtension ==
    ((VideoDone \/ ImageDone) /\ ArgSkiplisted) =>
        /\ results[1].action = "skip"
        /\ results[1].reason = IF ArgExtAllowed THEN "skiplist match" ELSE "wrong extension"

\* C5 witness: a video in a Trash folder that probes as fully compatible and
\* carries a metadata date was skipped for the skiplist match.
C5_Witness ==
    /\ VideoDone
    /\ In("Trash", ArgPath)
    /\ ArgExt = "mov"
    /\ ~ArgProbeFailed
    /\ ArgHasMetadataDate
    /\ ArgStreams = <<VideoHvc1Sdr, AudioAacStereo>>
    /\ results[1].reason = "skiplist match"

\* The probe result with only the last video and the last audio stream.
LastStreamsOnly(streams) ==
    (IF LastIndexOfType(streams, "video") = 0 THEN <<>>
     ELSE <<streams[LastIndexOfType(streams, "video")]>>)
    \o (IF LastIndexOfType(streams, "audio") = 0 THEN <<>>
        ELSE <<streams[LastIndexOfType(streams, "audio")]>>)

\* C8: with several streams of a type the last one decides the profile:
\* video_codec_needed, hdr_to_sdr_needed, the reason tokens,
\* audio_codec_needed and audio_channels are what the last video stream and
\* the last audio stream alone would give.
C8_LastStreamWins ==
    (VideoDone /\ "video_codec_needed" \in DOMAIN locals) =>
        LET alone == StreamProfile([streams |-> LastStreamsOnly(ArgStreams)], locals.ext)
        IN  /\ locals.video_codec_needed = alone.video_codec_needed
            /\ locals.hdr_to_sdr_needed = alone.hdr_to_sdr_needed
            /\ BuildReasons(locals) = BuildReasons(alone)
            /\ locals.audio_codec_needed = alone.audio_codec_needed
            /\ locals.audio_channels = alone.audio_channels

\* C10: a video without a metadata date under a folder 2018 is moved with
\* reason "date modified year correct" and its mtime as creation_time when
\* its mtime year is 2018, and skipped with reason "file modified time
\* mismatch" when its mtime year is 2024.
C10_MtimeFallbackDecision ==
    (/\ VideoDone
     /\ ArgExtAllowed
     /\ ~ArgSkiplisted
     /\ ~ArgProbeFailed
     /\ ~ArgHasMetadataDate
     /\ ArgPathYear = "2018") =>
        /\ ArgLocalYear = 2018 =>
              /\ results[1].action = "move"
              /\ results[1].reason = "date modified year correct"
              /\ results[1].creation_time = get_file_mtime_as_iso(args.mtime)
        /\ ArgLocalYear = 2024 =>
              /\ results[1].action = "skip"
              /\ results[1].reason = "file modified time mismatch"

(***************************************************************************)
(* Claims about the image classifier                                       *)
(***************************************************************************)

\* A non-empty value under the DateTimeOriginal tag (36867) of a readable
\* image.
ArgHasDateTaken ==
    /\ args.exif.readable
    /\ \E i \in 1..Len(args.exif.data) :
          args.exif.data[i][1] = 36867 /\ args.exif.data[i][2] # ""

DupesDone == program = "dupes" /\ ret # <<>>

EntryIsBig(e) == e.size >= 819200

\* A big and a small entry whose hashes are both present and differ in at
\* most 5 bits.
CrossPoolMatch(e, o) ==
    /\ EntryIsBig(e) # EntryIsBig(o)
    /\ e.phash # None
    /\ o.phash # None
    /\ HashDistance(hex_to_hash(e.phash), hex_to_hash(o.phash)) <= 5

\* C11: after evaluate_folder an entry is flagged iff it is in at least one
\* big x small pair with both hashes present and Hamming distance at most 5;
\* the big member of such a pair is dupe_big, the small one dupe_small;
\* entries of the same pool are never compared and a pair at a distance
\* above 5 flags neither entry.
C11_FlaggedIffCrossPoolMatch ==
    DupesDone =>
        \A i \in 1..Len(results) :
            LET e == results[i]
                matched == \E j \in 1..Len(results) : CrossPoolMatch(e, results[j])
            IN  /\ (e.dupe_type # "") <=> matched
                /\ matched =>
                      e.dupe_type = IF EntryIsBig(e) THEN "dupe_big" ELSE "dupe_small"

\* C11 witness: a big and a small entry exactly 5 bits apart were flagged,
\* while a second small entry, 1 bit from the first small one and 6 bits
\* from the big one, was left unflagged.
C11_Witness ==
    /\ DupesDone
    /\ \E i, j, k \in 1..Len(results) :
          /\ EntryIsBig(results[i]) /\ results[i].dupe_type = "dupe_big"
          /\ ~EntryIsBig(results[j]) /\ results[j].dupe_type = "dupe_small"
          /\ results[i].phash = "c3a1b2d4e5f60718"
          /\ results[j].phash = "c3a1b2d4e5f60707"
          /\ ~EntryIsBig(results[k]) /\ results[k].phash = "c3a1b2d4e5f60727"
          /\ results[k].dupe_type = ""

\* C12: every dupe_small entry has a non-empty dupe_of that is the path of a
\* dupe_big entry of the same batch, and the dupe_of of a dupe_big entry
\* stays empty, so it is never its own path.
C12_SmallPointsToBig ==
    DupesDone =>
        \A i \in 1..Len(results) :
            LET e == results[i]
            IN  /\ e.dupe_type = "dupe_small" =>
                      /\ e.dupe_of # ""
                      /\ \E j \in 1..Len(results) :
                            /\ results[j].file = e.dupe_of
                            /\ results[j].dupe_type = "dupe_big"
                /\ e.dupe_type = "dupe_big" => e.dupe_of = "" /\ e.dupe_of # e.file

\* C12 witness: a small entry that matched two big entries points to the
\* one compared last.
C12_Witness ==
    /\ DupesDone
    /\ Len(results) = 3
    /\ results[1].dupe_type = "dupe_big"
    /\ results[2].dupe_type = "dupe_big"
    /\ results[3].dupe_type = "dupe_small"
    /\ results[3].dupe_of = results[2].file

(***************************************************************************)
(* Claims about whole runs (SpecRuns)                                      *)
(***************************************************************************)

\* C13: a run always completes and yields exactly one row per input file,
\* with a defined action for a video, whatever fails on single files
\* (unreadable file, failed size or mtime read, failed probe, failed hash): a
\* failure shows as that file's row and neither removes the row nor aborts
\* the rows of the other files.
C13_OneRowPerFile ==
    /\ (program = "videorun" /\ ret # <<>>) =>
          /\ ret = <<"returned">>
          /\ Len(results) = Len(args)
          /\ \A i \in 1..Len(args) :
                /\ results[i].file = JoinPath(args[i].folder_path, args[i].file_name)
                /\ results[i].action \in {"skip", "move", "convert"}
    /\ DupesDone =>
          /\ Len(results) = Len(args.files)
          /\ \A i \in 1..Len(args.files) :
                \E j \in 1..Len(results) :
                    results[j].file = JoinPath(args.folder_path, args.files[i].file_name)

(***************************************************************************)
(* Claims about the executor (SpecProcess)                                 *)
(***************************************************************************)

ProcessDone == program = "process" /\ ret = <<"returned">>

\* A step of the row loop, on row locals.idx.
RowStep ==
    /\ program = "process"
    /\ ret = <<>>
    /\ locals.idx \in 1..Len(results)
    /\ locals'.idx = locals.idx + 1

StepRow == results[locals.idx]
StepRowAfter == results'[locals.idx]

\* The calls the step made.
StepCalls == SubSeq(locals'.calls, Len(locals.calls) + 1, Len(locals'.calls))

\* A non-empty file is at the destination the step computed.
StepDestinationTaken ==
    /\ StepRow.action \in {"move", "convert"}
    /\ StepRowAfter.derived_file # None
    /\ StepRowAfter.derived_file \in DOMAIN locals.fs
    /\ locals.fs[StepRowAfter.derived_file].size > 0

\* Every move and convert row of a returned frame succeeded.
FullySuccessful(frame) ==
    /\ frame # <<>>
    /\ \A i \in 1..Len(frame) :
          frame[i].action \in {"move", "convert"} => frame[i].processing_status = "SUCCESS"

\* C14: a move or convert row whose destination already holds a non-empty
\* file causes no copy and no conversion, leaves that file as it is and gets
\* the status "SKIPPED: file already exists"; and a second run over the same
\* report after a fully successful first run changes no destination file.
C14_ExistingDestinationSkipped ==
    [][RowStep =>
        /\ StepDestinationTaken =>
              /\ locals'.fs = locals.fs
              /\ locals'.calls = locals.calls
              /\ StepRowAfter.processing_status = "SKIPPED: file already exists"
              /\ StepRowAfter.processing_status # "SUCCESS"
        /\ (locals.run >= 2 /\ FullySuccessful(locals.earlier)) =>
              locals'.fs = locals.fs]_vars

\* A second run has skipped a move and a conversion that both succeeded in
\* the first run.
C14_Witness ==
    /\ ProcessDone
    /\ locals.run = 2
    /\ FullySuccessful(locals.earlier)
    /\ \E i, j \in 1..Len(results) :
          /\ results[i].action = "move"
          /\ results[j].action = "convert"
          /\ results[i].processing_status = "SKIPPED: file already exists"
          /\ results[j].processing_status = "SKIPPED: file already exists"
          /\ locals.fs[results[i].derived_file].size > 0

StartsWith(s, prefix) == Len(s) >= Len(prefix) /\ SubSeq(s, 1, Len(prefix)) = prefix

\* The three outcomes a move or convert row can show.
StatusRecorded(status) ==
    \/ status = "SUCCESS"
    \/ status = "SKIPPED: file already exists"
    \/ StartsWith(status, "ERROR:")

\* The step's row cannot be handled: a flag cell that is no number, a move
\* of a file that is gone, a conversion of a file ffmpeg fails on.
StepRowFails ==
    /\ StepRow.action \in {"move", "convert"}
    /\ ~StepDestinationTaken
    /\ \/ StepRow.video_codec_needed \notin {"0", "1", "0.0", "1.0"}
       \/ StepRow.action = "move" /\ StepRow.file \notin DOMAIN locals.fs
       \/ StepRow.action = "convert" /\ StepRow.file \notin DOMAIN locals.fs
       \/ StepRow.action = "convert" /\ locals.fs[StepRow.file].data = "damaged"

\* C15: a failure while one row is handled (malformed field, copy error,
\* transcode error) never aborts the batch: the failing row gets a status
\* starting with "ERROR:", the rows after it are still processed, at the end
\* every move and convert row has one of the statuses SUCCESS, SKIPPED: file
\* already exists, ERROR: ..., and a skip row has no effect on the files.
C15_FailureStaysInItsRow ==
    [][/\ RowStep =>
            /\ StepRowFails => StartsWith(StepRowAfter.processing_status, "ERROR:")
            /\ StepRowFails => (ret' = <<>> <=> locals.idx < Len(results))
            /\ StepRow.action = "skip" =>
                  /\ locals'.fs = locals.fs
                  /\ locals'.calls = locals.calls
            /\ \A i \in 1..Len(results) : i # locals.idx => results'[i] = results[i]
       /\ (program = "process" /\ ret' = <<"returned">>) =>
            /\ Len(results') = Len(args.rows)
            /\ \A i \in 1..Len(results') :
                  results'[i].action \in {"move", "convert"} =>
                      StatusRecorded(results'[i].processing_status)]_vars

\* A run has returned with a row that failed and a later row that succeeded.
C15_Witness ==
    /\ ProcessDone
    /\ locals.run = 1
    /\ \E i, j \in 1..Len(results) :
          /\ i < j
          /\ StartsWith(results[i].processing_status, "ERROR: CalledProcessError")
          /\ results[j].processing_status = "SUCCESS"

\* cmd holds the option followed by the value.
HasOption(cmd, option, value) ==
    \E k \in 1..(Len(cmd) - 1) : cmd[k] = option /\ cmd[k + 1] = value

\* The ffmpeg command line among the calls of the step, if it made one.
StepFfmpeg == {c \in {StepCalls[k] : k \in 1..Len(StepCalls)} : c[1] = FFMPEG_BINARY_PATH}

\* The need flags of the step's row, as the report states them.
StepVideoNeeded == StepRow.video_codec_needed \in {"1", "1.0"}
StepAudioNeeded == StepRow.audio_codec_needed \in {"1", "1.0"}

NormalizesColor(cmd) ==
    /\ HasOption(cmd, "-color_primaries", "bt709")
    /\ HasOption(cmd, "-color_trc", "bt709")
    /\ HasOption(cmd, "-colorspace", "bt709")

EndsWith(s, suffix) ==
    Len(s) >= Len(suffix) /\ SubSeq(s, Len(s) - Len(suffix) + 1, Len(s)) = suffix

\* The parts of C16 about the streams and the container.
ReencodesFlaggedOnly(cmd) ==
    /\ StepVideoNeeded <=> HasOption(cmd, "-c:v", "libx265")
    /\ ~StepVideoNeeded <=> HasOption(cmd, "-c:v", "copy")
    /\ StepAudioNeeded <=> HasOption(cmd, "-c:a", "aac")
    /\ ~StepAudioNeeded <=> HasOption(cmd, "-c:a", "copy")
    /\ EndsWith(cmd[Len(cmd)], ".mov")
    /\ cmd[Len(cmd)] = StepRowAfter.derived_file

\* C16 as stated: every conversion re-encodes exactly the flagged streams,
\* copies the other through, writes a .mov file and normalizes the color to
\* Rec.709 whatever the flags are.
C16_Original_AlwaysBt709 ==
    [][(RowStep /\ StepRow.action = "convert") =>
          \A cmd \in StepFfmpeg : ReencodesFlaggedOnly(cmd) /\ NormalizesColor(cmd)]_vars

\* C16, amended: every conversion re-encodes exactly the flagged streams,
\* copies the other through and writes a .mov file; it normalizes the color
\* to Rec.709 exactly when the video stream is re-encoded.
C16_Bt709WhenVideoReencoded ==
    [][(RowStep /\ StepRow.action = "convert") =>
          /\ StepRowAfter.derived_file # None =>
                EndsWith(StepRowAfter.derived_file, ".mov")
          /\ StepRowAfter.processing_status = "SUCCESS" => StepFfmpeg # {}
          /\ \A cmd \in StepFfmpeg :
                /\ ReencodesFlaggedOnly(cmd)
                /\ NormalizesColor(cmd) <=> StepVideoNeeded]_vars

\* A conversion succeeded by a command that copies the video stream and
\* names no color, and another by one that re-encodes it to bt709.
C16_Witness ==
    /\ ProcessDone
    /\ \E i, j \in 1..Len(results), k, l \in 1..Len(locals.calls) :
          /\ results[i].action = "convert" /\ results[i].processing_status = "SUCCESS"
          /\ results[i].video_codec_needed = "0"
          /\ locals.calls[k][Len(locals.calls[k])] = results[i].derived_file
          /\ HasOption(locals.calls[k], "-c:v", "copy")
          /\ ~NormalizesColor(locals.calls[k])
          /\ results[j].action = "convert" /\ results[j].processing_status = "SUCCESS"
          /\ results[j].video_codec_needed = "1"
          /\ locals.calls[l][Len(locals.calls[l])] = results[j].derived_file
          /\ HasOption(locals.calls[l], "-c:v", "libx265")
          /\ NormalizesColor(locals.calls[l])

(***************************************************************************)
(* Further claims about the video classifier (Spec)                        *)
(***************************************************************************)

\* C17: the video classifier gives the bare reason "convert" only in
\* decisions where video_codec_needed is true and neither the "video codec"
\* nor the "HDR to SDR" sub-reason was set; every convert decision with
\* video_codec_needed = 0 names at least one token.
C17_BareConvertOnlyForVideo ==
    (VideoDone /\ results[1].action = "convert") =>
        /\ results[1].reason = "convert" =>
              /\ results[1].video_codec_needed = 1
              /\ ~Truthy(locals.video_reason)
              /\ ~Truthy(locals.hdr_reason)
        /\ results[1].video_codec_needed = 0 =>
              StartsWith(results[1].reason, "convert: ")

\* C18: whenever the video classifier accepts a file through the file-mtime
\* fallback (no metadata date, path year equal to the local calendar year of
\* mtime), the creation_time it synthesizes has the path year as its year,
\* for every mtime and every offset of the local time zone.
C18_FallbackTimeInPathYear ==
    (VideoPassed /\ ~ArgHasMetadataDate) =>
        /\ str(ArgLocalYear) = ArgPathYear
        /\ results[1].creation_time = get_file_mtime_as_iso(args.mtime)
        /\ SubSeq(results[1].creation_time, 1, 4) = ArgPathYear

====
